---- MODULE Spec2Model ----
(***************************************************************************)
(* The Collectible blueprint (src/src/lib.rs): a component that registers  *)
(* members, mints collectible NFTs together with a collectible proof       *)
(* (claim certificate), sells the NFTs and lets proof holders redeem xrd.  *)
(*                                                                         *)
(* Every public method is one action.  The ledger executes a method call   *)
(* as part of a transaction: a panic (a failed assert!, unwrap or engine   *)
(* call) aborts the transaction and none of its writes are kept, so a      *)
(* failing call changes nothing but the record of the last call.           *)
(*                                                                         *)
(* Decimal amounts are fixed-point integers: the value v stands for        *)
(* v / ONE xrd.  Names, descriptions and image urls are stored and never   *)
(* read by any method; they are left out of the NFT data.                  *)
(***************************************************************************)
EXTENDS Integers, FiniteSets, Sequences, TLC

(* ---------------------------- bounds ----------------------------------- *)
MaxNfts == 2            \* calls of mint_collectible_nft
MaxMembers == 2         \* calls of create_account
MaxPayouts == 2         \* paying redeems per certificate id
Tip == 500              \* what an over-paying buyer puts in beyond the total

(* ---------------------------- constants -------------------------------- *)
ONE == 1000                          \* Decimal 1 (fixed-point scale)
(* price: Decimal, of any sign; the fee on 100 covers a payout of 1 *)
Prices == {0 - ONE, ONE, 100 * ONE}
Usernames == {"plymth"}

(* NonFungibleId::random(): fresh ids, distinct across the three resources *)
NftId(k) == k
ProofId(k) == 100 + k
MemberId(k) == 200 + k
Stranger == MemberId(MaxMembers + 1)   \* a badge id that create_account never issued
ForeignId == ProofId(MaxNfts + 1)      \* a non-fungible id that is no collectible proof

NftIds == {NftId(k) : k \in 1..MaxNfts}
ProofIds == {ProofId(k) : k \in 1..MaxNfts}
MemberIds == {MemberId(k) : k \in 1..MaxMembers}

VARIABLES
    collectible_members,   \* HashMap member badge id -> username
    nft_data,              \* the collectible nft resource: id -> CollectibleNft
    proof_data,            \* the collectible proof resource: live id -> CollectibleProof
    collectible_nfts,      \* vault: ids of the nfts in the component's custody
    collectible_proofs,    \* HashMap proof id -> nft id
    collected_xrd,         \* vault balance
    claimable_xrd,         \* vault balance
    sales,                 \* history: nft id -> sequence of settled purchases
    payouts,               \* history: certificate id -> number of paying redeems
    result                 \* the last call and what it returned

vars == <<collectible_members, nft_data, proof_data, collectible_nfts,
          collectible_proofs, collected_xrd, claimable_xrd, sales, payouts, result>>

component == <<collectible_members, nft_data, proof_data, collectible_nfts,
               collectible_proofs, collected_xrd, claimable_xrd>>

(* the fee payable when a collectible nft is sold: dec!("0.025") *)
collectible_fee == 25

(* Decimal * Decimal: the product of the raw values over the scale,        *)
(* truncated towards zero                                                  *)
DecMul(a, b) ==
    LET p == a * b
    IN IF p >= 0 THEN p \div ONE ELSE 0 - ((0 - p) \div ONE)

(* variant of TakeError: the balance not compared with the amount *)
TakeErrorNoBalance(balance, amount) ==
    IF amount < 0 THEN "InvalidAmount" ELSE "ok"

(* Bucket::take / Vault::take of an amount from a container of a balance   *)
TakeError(balance, amount) ==
    IF amount < 0 THEN "InvalidAmount"
    ELSE IF balance < amount THEN "InsufficientBalance"
    ELSE "ok"

NoCall == [op |-> "none", outcome |-> "ok", who |-> 0, id |-> 0, paid |-> 0,
           returned |-> "none", funds |-> 0]

Init ==
    /\ collectible_members = <<>>
    /\ nft_data = <<>>
    /\ proof_data = <<>>
    /\ collectible_nfts = {}
    /\ collectible_proofs = <<>>
    /\ collected_xrd = 0
    /\ claimable_xrd = 0
    /\ sales = <<>>
    /\ payouts = <<>>
    /\ result = NoCall

Put(f, k, v) == [x \in (DOMAIN f) \cup {k} |-> IF x = k THEN v ELSE f[x]]
Drop(f, k) == [x \in (DOMAIN f) \ {k} |-> f[x]]

(* ------------------------- create_account ------------------------------ *)
(* variant of MembersAfterCreate: the insert left out *)
MembersWithoutInsert(badge_id, username) == collectible_members

(* line 112: self.collectible_members.insert(badge_id, username) *)
MembersAfterCreate(badge_id, username) == Put(collectible_members, badge_id, username)

create_account(username) ==
    /\ Cardinality(DOMAIN collectible_members) < MaxMembers
    /\ LET badge_id == MemberId(Cardinality(DOMAIN collectible_members) + 1)
       IN /\ collectible_members' = MembersAfterCreate(badge_id, username)
          /\ result' = [NoCall EXCEPT !.op = "create_account", !.id = badge_id,
                                      !.returned = "badge"]
    /\ UNCHANGED <<nft_data, proof_data, collectible_nfts, collectible_proofs,
                   collected_xrd, claimable_xrd, sales, payouts>>

(* ----------------------- mint_collectible_nft -------------------------- *)
(* the Proof argument is #[allow(unused_variables)]: never looked at       *)
(* variant of MintStatus: the nft minted as Sold *)
MintStatusSold == "Sold"

(* line 139: status: CollectibleStatus::Available *)
MintStatus == "Available"

mint_collectible_nft(caller, price) ==
    /\ Cardinality(DOMAIN nft_data) < MaxNfts
    /\ LET k == Cardinality(DOMAIN nft_data) + 1
           nft_id == NftId(k)
           nft_proof_id == ProofId(k)
           claimable == price
       IN /\ nft_data' = Put(nft_data, nft_id, [price |-> price, status |-> MintStatus])
          /\ proof_data' = Put(proof_data, nft_proof_id,
                               [collectible_nft_id |-> nft_id, claimable_xrd |-> claimable])
          /\ collectible_proofs' = Put(collectible_proofs, nft_proof_id, nft_id)
          /\ collectible_nfts' = collectible_nfts \cup {nft_id}
          /\ sales' = Put(sales, nft_id, <<>>)
          /\ payouts' = Put(payouts, nft_proof_id, 0)
          /\ result' = [NoCall EXCEPT !.op = "mint", !.who = caller, !.id = nft_proof_id,
                                      !.paid = price, !.returned = "certificate"]
    /\ UNCHANGED <<collectible_members, collected_xrd, claimable_xrd>>

(* ------------------ redeem_funds_for_collectible_nft ------------------- *)
(* The bucket handed in is identified by its non-fungible id alone (line   *)
(* 184): its resource address is never compared with                       *)
(* collectible_proof_resource_address.  A caller can therefore hand in     *)
(* either a live collectible proof ("proof") or one non-fungible of a      *)
(* resource of their own, minted under an id of their choice ("other").    *)
BucketExists(resource, id) ==
    IF resource = "proof" THEN id \in DOMAIN proof_data ELSE TRUE

(* line 187: assert!(self.collectible_proofs.contains_key(..)) *)
ValidProof(id) == id \in DOMAIN collectible_proofs

(* lines 190-196: the nft the proof id maps to, and its data *)
ProofNft(id) == collectible_proofs[id]

(* variant of IsSold: the Sold arm taken whatever the status *)
IsSoldOrAvailable(nft_id) == nft_data[nft_id].status \in {"Sold", "Available"}

(* line 199/200: match nft_data.status { Sold => .. } *)
IsSold(nft_id) == nft_data[nft_id].status = "Sold"

(* variant of RedeemAmount: the price less the fee *)
RedeemAmountNet(id) ==
    nft_data[ProofNft(id)].price - DecMul(collectible_fee, nft_data[ProofNft(id)].price)

(* line 206: the amount asked from the collected_xrd vault *)
RedeemAmount(id) == nft_data[ProofNft(id)].price

RedeemOutcome(id) ==
    IF ~ValidProof(id) THEN "UnknownCertificate"
    ELSE IF ~IsSold(ProofNft(id)) THEN "ok"
    ELSE LET e == TakeError(collected_xrd, RedeemAmount(id))
         IN IF e = "InsufficientBalance" THEN "InsufficientPool" ELSE e

(* variant of ProofsAfterRedeem: the burn placed before the match *)
ProofsBurntFirst(resource, id) ==
    IF resource = "proof" THEN Drop(proof_data, id) ELSE proof_data

(* lines 199-209: the collectible proof resource after the match: the     *)
(* bucket is burnt in the Sold arm only (a bucket of another resource     *)
(* leaves the collectible proofs alone)                                    *)
ProofsAfterRedeem(resource, id) ==
    IF IsSold(ProofNft(id)) /\ resource = "proof" THEN Drop(proof_data, id)
    ELSE proof_data

redeem_funds_for_collectible_nft(resource, id) ==
    /\ BucketExists(resource, id)
    /\ id \in DOMAIN payouts => payouts[id] < MaxPayouts
    /\ LET outcome == RedeemOutcome(id)
           call == [NoCall EXCEPT !.op = "redeem", !.who = resource, !.id = id,
                                  !.outcome = outcome]
       IN IF outcome # "ok"
          THEN /\ result' = call
               /\ UNCHANGED <<component, sales, payouts>>
          ELSE /\ proof_data' = ProofsAfterRedeem(resource, id)
               /\ IF IsSold(ProofNft(id))
                  THEN \* Sold: return xrd funds
                       /\ collected_xrd' = collected_xrd - RedeemAmount(id)
                       /\ payouts' = [payouts EXCEPT ![id] = @ + 1]
                       /\ result' = [call EXCEPT !.returned = "funds",
                                                 !.funds = RedeemAmount(id)]
                  ELSE \* Available: return the bucket
                       /\ result' = [call EXCEPT !.returned = "certificate"]
                       /\ UNCHANGED <<collected_xrd, payouts>>
               /\ UNCHANGED <<collectible_members, nft_data, collectible_nfts,
                              collectible_proofs, claimable_xrd, sales>>

(* ------------------------ buy_collectible_nft -------------------------- *)
(* variant of ValidMember: the assert left out *)
ValidMemberAny(member_id) == TRUE

(* line 231: assert!(self.collectible_members.contains_key(..)) *)
ValidMember(member_id) == member_id \in DOMAIN collectible_members

(* variant of TransactionFee: the rate not multiplied by the price *)
TransactionFeeFlat(price) == collectible_fee

(* line 240: transaction_fee = self.collectible_fee * nft_data.price *)
TransactionFee(price) == DecMul(collectible_fee, price)

(* variant of ClaimableXrd: the fee split out of the price *)
ClaimableXrdNet(price) == price - TransactionFee(price)

(* line 245: claimable_xrd = nft_data.price *)
ClaimableXrd(price) == price

(* variant of InCustody: the nft looked up in the resource, not the vault *)
InCustodyIfMinted(nft_id) == nft_id \in DOMAIN nft_data

(* line 253: Vault::take_non_fungible finds the nft in the vault *)
InCustody(nft_id) == nft_id \in collectible_nfts

(* variant of StatusAfterBuy: update_data left out *)
StatusNotUpdated == "Available"

(* lines 251-257: nft_data.status = Sold, written back by update_data *)
StatusAfterBuy == "Sold"

(* variant of BuyOutcome: the status checked before the payment is taken *)
BuyOutcomeStatusFirst(member_id, nft_id, payment) ==
    IF ~ValidMember(member_id) THEN "Unauthorized"
    ELSE IF nft_id \notin DOMAIN nft_data THEN "NotFound"
    ELSE IF nft_data[nft_id].status # "Available" THEN "AlreadySold"
    ELSE LET price == nft_data[nft_id].price
             fee == TransactionFee(price)
             e1 == TakeError(payment, fee)
             e2 == TakeError(payment - fee, ClaimableXrd(price))
         IN IF e1 = "InvalidAmount" THEN e1
            ELSE IF e1 = "InsufficientBalance" THEN "InsufficientPayment"
            ELSE IF e2 = "InvalidAmount" THEN e2
            ELSE IF e2 = "InsufficientBalance" THEN "InsufficientPayment"
            ELSE "ok"

(* lines 227-257: where the call panics, if it does.  The engine's       *)
(* InsufficientBalance on the payment bucket is InsufficientPayment; its *)
(* failure to find the nft in the vault is AlreadySold.                  *)
BuyOutcome(member_id, nft_id, payment) ==
    IF ~ValidMember(member_id) THEN "Unauthorized"
    ELSE IF nft_id \notin DOMAIN nft_data THEN "NotFound"
    ELSE LET price == nft_data[nft_id].price
             fee == TransactionFee(price)
             e1 == TakeError(payment, fee)
             e2 == TakeError(payment - fee, ClaimableXrd(price))
         IN IF e1 = "InvalidAmount" THEN e1
            ELSE IF e1 = "InsufficientBalance" THEN "InsufficientPayment"
            ELSE IF e2 = "InvalidAmount" THEN e2
            ELSE IF e2 = "InsufficientBalance" THEN "InsufficientPayment"
            ELSE IF ~InCustody(nft_id) THEN "AlreadySold"
            ELSE "ok"

buy_collectible_nft(member_id, nft_id, payment) ==
    LET outcome == BuyOutcome(member_id, nft_id, payment)
        call == [NoCall EXCEPT !.op = "buy", !.who = member_id, !.id = nft_id,
                               !.paid = payment, !.outcome = outcome]
    IN IF outcome # "ok"
       THEN /\ result' = call
            /\ UNCHANGED <<component, sales, payouts>>
       ELSE LET price == nft_data[nft_id].price
                fee == TransactionFee(price)
                claimable == ClaimableXrd(price)
            IN /\ collected_xrd' = collected_xrd + fee
               /\ claimable_xrd' = claimable_xrd + claimable
               /\ nft_data' = [nft_data EXCEPT ![nft_id].status = StatusAfterBuy]
               /\ collectible_nfts' = collectible_nfts \ {nft_id}
               /\ sales' = [sales EXCEPT ![nft_id] =
                              Append(@, [fee |-> fee, claimable |-> claimable])]
               /\ result' = [call EXCEPT !.returned = "nft",
                                         !.funds = payment - fee - claimable]
               /\ UNCHANGED <<collectible_members, proof_data, collectible_proofs,
                              payouts>>

(* what a caller may put in the payment bucket for an nft *)
Payments(nft_id) ==
    IF nft_id \notin DOMAIN nft_data THEN {0}
    ELSE LET price == nft_data[nft_id].price
             total == price + TransactionFee(price)
         IN IF total <= 0 THEN {0, Tip} ELSE {price, total, total + Tip}

Next ==
    \/ \E u \in Usernames : create_account(u)
    \/ \E c \in MemberIds \cup {Stranger}, p \in Prices : mint_collectible_nft(c, p)
    \/ \E r \in {"proof", "other"}, id \in ProofIds \cup {ForeignId} :
          redeem_funds_for_collectible_nft(r, id)
    \/ \E m \in MemberIds \cup {Stranger}, n \in NftIds :
          \E pay \in Payments(n) : buy_collectible_nft(m, n, pay)

Spec == Init /\ [][Next]_vars

(* ======================= properties of the calls ======================= *)
Status(nft_id) == nft_data[nft_id].status
Price(nft_id) == nft_data[nft_id].price
FeeOn(price) == (25 * price) \div 1000        \* 2.5% of a price >= 0
Total(price) == price + FeeOn(price)
Registered(member_id) == member_id \in DOMAIN collectible_members
Minted(nft_id) == nft_id \in DOMAIN nft_data
Recorded(id) == id \in DOMAIN collectible_proofs

(* a step that is a call of redeem / of buy: the call is in result' *)
RedeemCall == result'.op = "redeem"
BuyCall == result'.op = "buy"
PaidOut == RedeemCall /\ result'.returned = "funds"
Bought == BuyCall /\ result'.outcome = "ok"

(* C1: a redeem returns funds only if, when it is called, the certificate *)
(* id is in the ledger and the item it maps to is Sold.                   *)
C1_FundsOnlyIfSold ==
    [][PaidOut => /\ Recorded(result'.id)
                  /\ Status(collectible_proofs[result'.id]) = "Sold"]_vars

C1_Witness ==
    /\ result.op = "redeem" /\ result.returned = "funds" /\ result.funds > 0
    /\ Status(collectible_proofs[result.id]) = "Sold"

(* C2: once a certificate id has been paid out, every later redeem with   *)
(* that id fails with UnknownCertificate and pays nothing.                *)
C2_SecondRedeemUnknown ==
    [][(RedeemCall /\ result'.id \in DOMAIN payouts /\ payouts[result'.id] >= 1)
        => /\ result'.outcome = "UnknownCertificate"
           /\ result'.returned = "none"
           /\ UNCHANGED <<collected_xrd, claimable_xrd>>]_vars

(* C3: a redeem of a certificate whose item is Available returns the      *)
(* certificate and leaves item store, ledger, certificates and both       *)
(* balances as they were.                                                 *)
C3_RedeemAvailableNoOp ==
    [][(RedeemCall /\ Recorded(result'.id)
          /\ Status(collectible_proofs[result'.id]) = "Available")
        => /\ result'.outcome = "ok"
           /\ result'.returned = "certificate"
           /\ UNCHANGED <<nft_data, collectible_nfts, collectible_proofs,
                          proof_data, collected_xrd, claimable_xrd>>]_vars

C3_Witness ==
    /\ result.op = "redeem" /\ result.returned = "certificate"
    /\ result.who = "proof" /\ result.id \in DOMAIN proof_data
    /\ Status(collectible_proofs[result.id]) = "Available"

(* C4: of the purchases of one item by registered buyers whose payment    *)
(* covers what is taken, the first succeeds and gets the item, every      *)
(* later one fails with AlreadySold and changes nothing; the failing call *)
(* finds the sale complete (Sold, out of custody); no item is delivered   *)
(* twice.                                                                 *)
C4_OneBuyerPerItem ==
    [][(BuyCall /\ Registered(result'.who) /\ Minted(result'.id)
          /\ Price(result'.id) >= 0 /\ result'.paid >= Total(Price(result'.id)))
        => LET n == result'.id
           IN /\ Len(sales[n]) = 0 =>
                   /\ result'.outcome = "ok" /\ result'.returned = "nft"
                   /\ Len(sales'[n]) = 1
                   /\ n \notin collectible_nfts'
              /\ Len(sales[n]) > 0 =>
                   /\ Status(n) = "Sold" /\ n \notin collectible_nfts
                   /\ result'.outcome = "AlreadySold" /\ result'.returned = "none"
                   /\ UNCHANGED <<component, sales>>
              /\ Len(sales'[n]) <= 1]_vars

C4_Witness ==
    /\ result.op = "buy" /\ result.outcome = "AlreadySold"
    /\ Len(sales[result.id]) = 1
    /\ result.who = MemberId(2) /\ Registered(MemberId(1))

(* C5 as stated: a registered buyer's purchase of an Available item does  *)
(* not fail with AlreadySold, and of a Sold item always fails with        *)
(* AlreadySold.                                                           *)
C5_SoldAlwaysAlreadySold ==
    [][(BuyCall /\ Registered(result'.who) /\ Minted(result'.id))
        => /\ Status(result'.id) = "Available" => result'.outcome # "AlreadySold"
           /\ Status(result'.id) = "Sold" => result'.outcome = "AlreadySold"]_vars

(* C5 amended: a registered buyer's purchase of an Available item does    *)
(* not fail with AlreadySold; of a Sold item it always fails and changes  *)
(* nothing: with AlreadySold when the payment covers price plus fee, with *)
(* InsufficientPayment when it does not.                                  *)
C5_SoldAlwaysFails ==
    [][(BuyCall /\ Registered(result'.who) /\ Minted(result'.id))
        => /\ Status(result'.id) = "Available" => result'.outcome # "AlreadySold"
           /\ Status(result'.id) = "Sold" =>
                /\ result'.outcome =
                     IF result'.paid >= Total(Price(result'.id))
                     THEN "AlreadySold" ELSE "InsufficientPayment"
                /\ UNCHANGED <<component, sales>>]_vars

C5_Witness ==
    /\ result.op = "buy" /\ result.outcome = "InsufficientPayment"
    /\ Registered(result.who) /\ Minted(result.id)
    /\ Status(result.id) = "Sold"

(* C6 as stated: a successful purchase raises collected fees plus         *)
(* claimable pool by exactly the price.                                   *)
C6_SumUpByPrice ==
    [][Bought => collected_xrd' + claimable_xrd'
                   = collected_xrd + claimable_xrd + Price(result'.id)]_vars

(* C6 amended: a successful purchase raises collected fees plus claimable *)
(* pool by exactly price plus fee (fee = 2.5% of the price), and exactly  *)
(* that is taken from the payment.                                        *)
C6_SumUpByPricePlusFee ==
    [][Bought => /\ collected_xrd' + claimable_xrd'
                      = collected_xrd + claimable_xrd + Total(Price(result'.id))
                 /\ result'.paid - result'.funds = Total(Price(result'.id))]_vars

C6_Witness ==
    /\ result.op = "buy" /\ result.outcome = "ok"
    /\ Price(result.id) > 0
    /\ result.paid - result.funds = Total(Price(result.id))

(* C7 as stated: a registered buyer paying exactly the price of an        *)
(* Available item succeeds; the fee goes to collected fees, price minus   *)
(* fee to the claimable pool, the item is Sold, the change is 0.          *)
C7_ExactPriceBuys ==
    [][(BuyCall /\ Registered(result'.who) /\ Minted(result'.id)
          /\ Status(result'.id) = "Available" /\ Price(result'.id) >= 0
          /\ result'.paid = Price(result'.id))
        => LET p == Price(result'.id)
           IN /\ result'.outcome = "ok"
              /\ collected_xrd' = collected_xrd + FeeOn(p)
              /\ claimable_xrd' = claimable_xrd + p - FeeOn(p)
              /\ nft_data'[result'.id].status = "Sold"
              /\ result'.funds = 0]_vars

(* C7 amended: a registered buyer whose payment holds at least price plus *)
(* fee of an Available item succeeds; the fee goes to collected fees, the *)
(* full price to the claimable pool, the item is Sold, the change is      *)
(* payment - (price + fee), so 0 for a payment of exactly price plus fee; *)
(* a payment of less (the bare price of a priced item) is refused.        *)
C7_PricePlusFeeBuys ==
    [][(BuyCall /\ Registered(result'.who) /\ Minted(result'.id)
          /\ Status(result'.id) = "Available" /\ Price(result'.id) >= 0)
        => LET p == Price(result'.id)
           IN IF result'.paid >= Total(p)
              THEN /\ result'.outcome = "ok"
                   /\ collected_xrd' = collected_xrd + FeeOn(p)
                   /\ claimable_xrd' = claimable_xrd + p
                   /\ nft_data'[result'.id].status = "Sold"
                   /\ result'.funds = result'.paid - Total(p)
              ELSE /\ result'.outcome = "InsufficientPayment"
                   /\ UNCHANGED <<component, sales>>]_vars

(* price 100 at 2.5%: payment 102.5, fees +2.5, pool +100, change 0 *)
C7_Witness ==
    /\ result.op = "buy" /\ result.outcome = "ok"
    /\ Price(result.id) = 100 * ONE
    /\ result.paid = 102500 /\ result.funds = 0
    /\ sales[result.id][1].fee = 2500 /\ sales[result.id][1].claimable = 100000
    /\ Status(result.id) = "Sold"

(* C8 as stated: a paying redeem returns what the item's purchase put in  *)
(* the claimable pool, which is price minus fee.                          *)
C8_PayoutIsPriceMinusFee ==
    [][PaidOut => LET n == collectible_proofs[result'.id]
                  IN /\ Len(sales[n]) = 1
                     /\ result'.funds = sales[n][1].claimable
                     /\ result'.funds = Price(n) - FeeOn(Price(n))]_vars

(* C8 amended: a paying redeem returns what the item's purchase put in    *)
(* the claimable pool, which is the full price.                           *)
C8_PayoutIsPrice ==
    [][PaidOut => LET n == collectible_proofs[result'.id]
                  IN /\ Len(sales[n]) = 1
                     /\ result'.funds = sales[n][1].claimable
                     /\ result'.funds = Price(n)]_vars

C8_Witness ==
    /\ result.op = "redeem" /\ result.returned = "funds"
    /\ result.funds = ONE
    /\ sales[collectible_proofs[result.id]][1].claimable = ONE

(* C9: a paying redeem lowers the claimable pool by what it returns and   *)
(* leaves the collected fees alone.                                       *)
C9_PayoutFromClaimablePool ==
    [][PaidOut => /\ claimable_xrd' = claimable_xrd - result'.funds
                  /\ collected_xrd' = collected_xrd]_vars

(* C10: a redeem of a live, not yet redeemed certificate whose item is    *)
(* Sold pays out; it never fails for lack of funds.                       *)
C10_RedeemOfSoldPays ==
    [][(RedeemCall /\ result'.who = "proof" /\ Recorded(result'.id)
          /\ payouts[result'.id] = 0
          /\ Status(collectible_proofs[result'.id]) = "Sold")
        => /\ result'.outcome = "ok"
           /\ result'.returned = "funds"]_vars

(* sum of f(x) over the finite set S *)
RECURSIVE SumOver(_, _)
SumOver(f, S) ==
    IF S = {} THEN 0
    ELSE LET x == CHOOSE y \in S : TRUE IN f[x] + SumOver(f, S \ {x})

(* the live certificates whose item is Sold: sold and not yet redeemed *)
Claimable == {c \in DOMAIN proof_data : Status(proof_data[c].collectible_nft_id) = "Sold"}
SoldNfts == {n \in DOMAIN nft_data : Status(n) = "Sold"}

(* C11: the claimable pool holds at least the sum of the claimable        *)
(* amounts of the live certificates whose item is Sold.                   *)
C11_PoolCoversClaims ==
    claimable_xrd >= SumOver([c \in Claimable |-> proof_data[c].claimable_xrd], Claimable)

C11_Witness ==
    /\ Cardinality(Claimable) = 2
    /\ claimable_xrd = 101 * ONE

(* C12: every minted item whose certificate is still live is the value of *)
(* exactly one ledger entry, and the ledger has no entry for a            *)
(* certificate that was redeemed (burnt).                                 *)
C12_LedgerTracksCertificates ==
    /\ \A c \in DOMAIN proof_data :
          Cardinality({k \in DOMAIN collectible_proofs :
                         collectible_proofs[k] = proof_data[c].collectible_nft_id}) = 1
    /\ \A c \in DOMAIN payouts :
          c \notin DOMAIN proof_data => c \notin DOMAIN collectible_proofs

(* C13: a registered buyer's purchase whose payment holds less than what  *)
(* is taken (price plus fee) fails with InsufficientPayment and changes   *)
(* nothing: both balances, the item's status and custody, certificates    *)
(* and ledger are as before, and nothing is returned in exchange.         *)
C13_ShortPaymentNoEffect ==
    [][(BuyCall /\ Registered(result'.who) /\ Minted(result'.id)
          /\ Price(result'.id) >= 0 /\ result'.paid < Total(Price(result'.id)))
        => /\ result'.outcome = "InsufficientPayment"
           /\ result'.returned = "none" /\ result'.funds = 0
           /\ UNCHANGED <<component, sales>>
           /\ Status(result'.id) = "Available" =>
                  /\ nft_data'[result'.id].status = "Available"
                  /\ result'.id \in collectible_nfts']_vars

C13_Witness ==
    /\ result.op = "buy" /\ result.outcome = "InsufficientPayment"
    /\ Registered(result.who) /\ Minted(result.id)
    /\ result.paid = Price(result.id) /\ result.paid > 0
    /\ Status(result.id) = "Available" /\ result.id \in collectible_nfts
    /\ collected_xrd = 0 /\ claimable_xrd = 0

(* C14: a purchase succeeds only for a registered buyer id; with an       *)
(* unregistered id it fails with Unauthorized and changes nothing.        *)
C14_UnregisteredBuyerRefused ==
    [][/\ Bought => Registered(result'.who)
       /\ (BuyCall /\ ~Registered(result'.who))
            => /\ result'.outcome = "Unauthorized"
               /\ result'.returned = "none" /\ result'.funds = 0
               /\ UNCHANGED <<component, sales>>]_vars

C14_Witness ==
    /\ result.op = "buy" /\ result.outcome = "Unauthorized"
    /\ ~Registered(result.who) /\ Minted(result.id)
    /\ Status(result.id) = "Available" /\ Price(result.id) > 0
    /\ result.paid >= Total(Price(result.id))

(* C15: no item has a negative price (a mint with a negative price is     *)
(* rejected and creates nothing).                                         *)
C15_NoNegativePrice ==
    \A n \in DOMAIN nft_data : Price(n) >= 0

(* C16: a mint goes through only for a caller whose identity is           *)
(* registered.                                                            *)
C16_MintOnlyByMember ==
    result.op = "mint" => Registered(result.who)

(* C17: an item is Available when minted; its status changes only from    *)
(* Available to Sold, only in a successful purchase of that item, and     *)
(* that purchase does set it; a Sold item stays Sold.                     *)
C17_SoldIsFinal ==
    [][\A n \in DOMAIN nft_data' :
         IF n \notin DOMAIN nft_data
         THEN nft_data'[n].status = "Available" /\ result'.op = "mint"
         ELSE /\ Status(n) = "Sold" => nft_data'[n].status = "Sold"
              /\ nft_data'[n].status # Status(n) => (Bought /\ result'.id = n)
              /\ (Bought /\ result'.id = n) =>
                    (Status(n) = "Available" /\ nft_data'[n].status = "Sold")]_vars

(* a Sold item, still Sold after a later mint *)
C17_Witness ==
    /\ result.op = "mint"
    /\ \E n \in DOMAIN nft_data : Status(n) = "Sold" /\ Len(sales[n]) = 1

(* what the paying redeems of a certificate id took out, in all *)
PaidOutOf(c) == payouts[c] * Price(collectible_proofs[c])

(* C18: an item is Sold exactly if one purchase of it was settled, and    *)
(* exactly then it is out of custody; the claimable pool is the sum of    *)
(* the proceeds of the Sold items and the collected fees are the sum of   *)
(* their fees less what redeems paid out: no Sold item without its funds, *)
(* no funds for an Available item.                                        *)
C18_SoldIffFundsRecorded ==
    /\ \A n \in DOMAIN nft_data :
          /\ Status(n) = "Sold" <=> Len(sales[n]) = 1
          /\ Status(n) = "Available" <=> Len(sales[n]) = 0
          /\ Status(n) = "Sold" <=> n \notin collectible_nfts
    /\ claimable_xrd = SumOver([n \in SoldNfts |-> Price(n)], SoldNfts)
    /\ collected_xrd = SumOver([n \in SoldNfts |-> FeeOn(Price(n))], SoldNfts)
                         - SumOver([c \in DOMAIN payouts |-> PaidOutOf(c)], DOMAIN payouts)

C18_Witness ==
    /\ \E n \in DOMAIN nft_data : Status(n) = "Sold" /\ Price(n) = 100 * ONE
    /\ \E n \in DOMAIN nft_data : Status(n) = "Available" /\ Price(n) = ONE
    /\ claimable_xrd = 100 * ONE /\ collected_xrd = 2500

C20_FundsConserved ==
    [][IF Bought
       THEN collected_xrd' + claimable_xrd'
              = collected_xrd + claimable_xrd + (result'.paid - result'.funds)
       ELSE IF PaidOut /\ Recorded(result'.id)
                  /\ Status(collectible_proofs[result'.id]) = "Sold"
       THEN collected_xrd' + claimable_xrd'
              = collected_xrd + claimable_xrd - result'.funds
       ELSE UNCHANGED <<collected_xrd, claimable_xrd>>]_vars

C20_Witness ==
    /\ result.op = "redeem" /\ result.returned = "funds" /\ result.funds = ONE
    /\ collected_xrd + claimable_xrd = 102525
    /\ Cardinality(SoldNfts) = 2
====
